---- MODULE Spec2Model ----
(***************************************************************************)
(* Model of backend/generate_data.py: the synthetic inventory generator    *)
(* (generate_sku_data, inject_anomalies), its statistics (compute_stats)   *)
(* and the batch driver (main); of backend/seed_firestore.py, which loads   *)
(* the dataset into the document store by calendar month; and of the parts *)
(* of backend/app.py that read a product back (get_sku_data,               *)
(* _get_fallback_sku) and cache responses (cache_get, cache_set, insights).*)
(*                                                                         *)
(* Numbers.  Python floats are modelled in fixed point with three decimal  *)
(* digits ("milli": 1.0 is 1000).  Quantities the program keeps as ints    *)
(* (qty_sold, qty_received, stock_level, indices) are plain integers.      *)
(* Averages and ratios of compute_stats are exact rationals, rounded       *)
(* half-even to the number of decimals the code rounds to.                 *)
(*                                                                         *)
(* Randomness.  The module-level generator seeded at import is a state     *)
(* variable rng; every random.* call reads the stream and advances it.     *)
(***************************************************************************)
EXTENDS Integers, Sequences, FiniteSets, TLC

VARIABLES
    seed,          \* the argument of random.seed at import
    rng,           \* state of the module-level random source
    run,           \* 1 for the first execution of the program, 2 for the second
    first_output,  \* what the first execution left behind (for comparing executions)
    SKUS,          \* the configured list of product profiles
    END_DATE,      \* last calendar day to generate
    sku_i,         \* position of main's loop in SKUS (1-based)
    pc,            \* where the program is
    records,       \* generate_sku_data: the list being built / daily_data
    stock,         \* generate_sku_data: running stock
    day,           \* generate_sku_data: current calendar day
    day_index,     \* generate_sku_data: 0-based index of day
    n_anomalies,   \* inject_anomalies: number of spikes drawn
    indices,       \* inject_anomalies: sampled start positions (0-based)
    idx_i,         \* inject_anomalies: position of the for loop in indices (1-based)
    spikes,        \* history: <<idx, duration, multiplier>> of every spike applied
    pre,           \* history: the series as it was when inject_anomalies was called
    clamped,       \* history: 0-based days of this series on which `if stock < 0` ran
    stats,         \* main: result of compute_stats for the current product
    all_data,      \* main: sku -> entry
    output_file,   \* data/inventory_history.json: <<>> until written, then <<all_data>>
    firestore,     \* seed_firestore / app: collection inventory_history, sku -> document
    served,        \* app: what get_sku_data returned, with and without Firestore
    cache,         \* app: _cache, key -> [data, ts]
    cache_lock,    \* app: _cache_lock, "free" or the request holding it
    now,           \* app: time.time(), in seconds
    req            \* app: request -> where its handler is and what it has done

\* state of generate_data.py
genVars == <<seed, rng, run, first_output, SKUS, END_DATE, sku_i, pc, records, stock,
             day, day_index, n_anomalies, indices, idx_i, spikes, pre, clamped, stats,
             all_data, output_file>>

\* state of seed_firestore.py and app.py
appVars == <<firestore, served, cache, cache_lock, now, req>>

vars == <<genVars, appVars>>

----------------------------------------------------------------------------
(* Bounds of the model *)

\* seeds SEED .. SEED + MaxSeed are explored
MaxSeed == 1

\* largest series length when compute_stats is called directly
MaxLen == 7

\* largest qty_sold when compute_stats is called directly
MaxQty == 1

\* largest stock_level when compute_stats is called directly
MaxStock == 3

----------------------------------------------------------------------------
(* Fixed point helpers *)

Max(a, b) == IF a >= b THEN a ELSE b

Min(a, b) == IF a <= b THEN a ELSE b

\* floor(n / d) for d > 0 and any integer n
FloorDiv(n, d) == n \div d

\* int(x) of Python for a rational n / d, d > 0: truncation toward zero
Trunc(n, d) == IF n >= 0 THEN n \div d ELSE -((-n) \div d)

\* round(n / d) of Python for d > 0: nearest integer, ties to the even one
RoundHalfEven(n, d) ==
    LET q == FloorDiv(n, d)
        r == n - q * d
    IN  IF 2 * r < d THEN q
        ELSE IF 2 * r > d THEN q + 1
        ELSE IF q % 2 = 0 THEN q ELSE q + 1

\* s[lo] + ... + s[hi], by halves
RECURSIVE SumRange(_, _, _)
SumRange(s, lo, hi) ==
    IF lo > hi THEN 0
    ELSE IF lo = hi THEN s[lo]
    ELSE LET mid == (lo + hi) \div 2
         IN  SumRange(s, lo, mid) + SumRange(s, mid + 1, hi)

\* sum(s)
SumSeq(s) == SumRange(s, 1, Len(s))

\* s[-n:] of Python
LastN(s, n) == IF Len(s) <= n THEN s ELSE SubSeq(s, Len(s) - n + 1, Len(s))

\* s[a:b] of Python for 0 <= a, 0 <= b (0-based, b exclusive)
Slice(s, a, b) == SubSeq(s, a + 1, Min(b, Len(s)))

----------------------------------------------------------------------------
(* Calendar: datetime, timedelta(days=1), strftime *)

Date(y, m, d) == [year |-> y, month |-> m, dom |-> d]

START_DATE == Date(2023, 1, 1)

IsLeap(y) == (y % 4 = 0) /\ ((y % 100 # 0) \/ (y % 400 = 0))

DaysInMonth(y, m) ==
    IF m = 2 THEN (IF IsLeap(y) THEN 29 ELSE 28)
    ELSE IF m \in {4, 6, 9, 11} THEN 30 ELSE 31

\* day + timedelta(days=1)
NextDay(d) ==
    IF d.dom < DaysInMonth(d.year, d.month) THEN Date(d.year, d.month, d.dom + 1)
    ELSE IF d.month < 12 THEN Date(d.year, d.month + 1, 1)
    ELSE Date(d.year + 1, 1, 1)

RECURSIVE DaysBeforeMonth(_, _)
DaysBeforeMonth(y, m) ==
    IF m = 1 THEN 0 ELSE DaysBeforeMonth(y, m - 1) + DaysInMonth(y, m - 1)

\* datetime.toordinal(): 1 for 0001-01-01
ToOrdinal(d) ==
    LET y == d.year - 1
    IN  y * 365 + (y \div 4) - (y \div 100) + (y \div 400)
        + DaysBeforeMonth(d.year, d.month) + d.dom

\* datetime.weekday(): Monday is 0
Weekday(d) == (ToOrdinal(d) + 6) % 7

\* a <= b on datetimes
DateLE(a, b) ==
    \/ a.year < b.year
    \/ a.year = b.year /\ a.month < b.month
    \/ a.year = b.year /\ a.month = b.month /\ a.dom <= b.dom

DateLT(a, b) == DateLE(a, b) /\ a # b

\* day.strftime("%Y-%m-%d"): the three fields in order
Strftime(d) == <<d.year, d.month, d.dom>>

\* int(date.split("-")[1])
MonthOf(s) == s[2]

----------------------------------------------------------------------------
(* The random source: `import random`, random.seed(42)                      *)
(* A linear congruential stream stands for the Mersenne Twister: a          *)
(* deterministic function of the seed, advanced by one state per call.      *)

SEED == 42

RandMod == 65536

\* the state after one more call
LCG(r) == (25173 * r + 13849) % RandMod

\* the state after k more calls; the k-th call from state r returns a value
\* computed from Stream(r, k)
RECURSIVE Stream(_, _)
Stream(r, k) == IF k = 0 THEN r ELSE Stream(LCG(r), k - 1)

\* random.uniform(a, b) = a + (b - a) * random(), a and b in milli
Uniform(r, a, b) == a + ((b - a) * r) \div RandMod

\* random.randint(a, b): a <= result <= b
RandInt(r, a, b) == a + ((b - a + 1) * r) \div RandMod

\* random.gauss(0, sigma): the standard normal is cut into 16 equally likely
\* bands, each standing for its median (milli)
GaussTable ==
    <<-1863, -1318, -1010, -776, -579, -402, -237, -78,
      78, 237, 402, 579, 776, 1010, 1318, 1863>>

\* sigma in milli, result in milli
Gauss(r, sigma) == Trunc(sigma * GaussTable[1 + (16 * r) \div RandMod], 1000)

\* random.sample(population, k) for k <= Len(population): k selections
\* without replacement (the pool algorithm of the standard library); draws
\* are the states Stream(r, 1) .. Stream(r, k)
RECURSIVE SamplePool(_, _, _)
SamplePool(pool, k, r) ==
    IF k = 0 THEN <<>>
    ELSE LET r1  == LCG(r)
             n   == Len(pool)
             j   == 1 + (n * r1) \div RandMod
             pl  == [i \in 1..(n - 1) |-> IF i = j THEN pool[n] ELSE pool[i]]
         IN  <<pool[j]>> \o SamplePool(pl, k - 1, r1)

\* variant: random.choices(population, k=k), selection with replacement,
\* which fails on an empty population only
sample_with_replacement(population, k, r) ==
    IF Len(population) = 0
    THEN [raised |-> TRUE, value |-> <<>>, rng |-> r]
    ELSE [raised |-> FALSE,
          value |-> [i \in 1..k |->
                        population[1 + (Len(population) * Stream(r, i)) \div RandMod]],
          rng |-> Stream(r, k)]

\* random.sample(population, k): raises ValueError when k is larger than
\* the population, before any draw
sample(population, k, r) ==
    IF k > Len(population)
    THEN [raised |-> TRUE, value |-> <<>>, rng |-> r]
    ELSE [raised |-> FALSE, value |-> SamplePool(population, k, r),
          rng |-> Stream(r, k)]

\* range(a, b) of Python as a sequence
Range(a, b) == [i \in 1..Max(0, b - a) |-> a + i - 1]

----------------------------------------------------------------------------
(* Factor functions *)

\* math.cos(k * 2*pi/12) in milli, k = 0..11
CosTable == <<1000, 866, 500, 0, -500, -866, -1000, -866, -500, 0, 500, 866>>

\* seasonal_factor(day, peak_month, amplitude): amplitude and result in milli
seasonal_factor(d, peak_month, amplitude) ==
    1000 + Trunc(amplitude * CosTable[1 + ((d.month - peak_month) % 12)], 1000)

\* weekday_factor(day): r is the state the random.random() call returns from
weekday_factor(d, r) ==
    IF Weekday(d) < 5 THEN 1000 + (100 * r) \div RandMod
    ELSE 300 + (200 * r) \div RandMod

\* e ** k in milli, k >= 0
RECURSIVE ExpInt(_)
ExpInt(k) == IF k = 0 THEN 1000 ELSE (ExpInt(k - 1) * 2718) \div 1000

\* e ** (f / 1000) in milli for 0 <= f < 1000 (five terms of the series)
ExpFrac(f) ==
    LET f2 == (f * f) \div 1000
        f3 == (f2 * f) \div 1000
        f4 == (f3 * f) \div 1000
        f5 == (f4 * f) \div 1000
    IN  1000 + f + f2 \div 2 + f3 \div 6 + f4 \div 24 + f5 \div 120

\* math.exp(x), x and result in milli
Exp(x) ==
    IF x >= 0 THEN (ExpInt(x \div 1000) * ExpFrac(x % 1000)) \div 1000
    ELSE (1000 * 1000) \div ((ExpInt((-x) \div 1000) * ExpFrac((-x) % 1000)) \div 1000)

\* trend_factor(day_index, trend): trend and result in milli
trend_factor(di, trend) == Exp(trend * di)

----------------------------------------------------------------------------
(* Product profiles (SKUS) and date ranges explored *)

\* trend and seasonal_amplitude in milli, unit_cost and sell_price in cents
Profile(sku, name, category, location, cost, price, lead, base, trend, peak, amp) ==
    [sku |-> sku, name |-> name, category |-> category, location |-> location,
     unit_cost |-> cost, sell_price |-> price, lead_time_days |-> lead,
     base_daily_demand |-> base, trend |-> trend, seasonal_peak_month |-> peak,
     seasonal_amplitude |-> amp]

\* the first entry of SKUS in the source
ELEC_PCB_001 ==
    Profile("ELEC-PCB-001", "Circuit Board PCB-A1", "Electronics", "Warehouse A",
            1250, 2499, 7, 8, 3, 11, 400)

\* a fast-moving product with a one-day lead time and strong growth
FAST_MOVER ==
    Profile("TEST-FAST-001", "Fast Mover", "Test", "Warehouse T",
            100, 200, 1, 5, 6, 1, 400)

\* a declining product whose demand rounds to zero late in the series
DECLINING ==
    Profile("TEST-DECL-001", "Declining Item", "Test", "Warehouse T",
            100, 200, 10, 1, -6, 4, 300)

\* a profile no check of the program rejects: zero lead time and a peak
\* month outside 1..12
ZERO_LEAD ==
    Profile("TEST-ZERO-001", "Zero Lead Time", "Test", "Warehouse T",
            100, 200, 0, 2, 0, 13, 400)

SkuLists == { <<ELEC_PCB_001>>, <<FAST_MOVER, DECLINING>>, <<ZERO_LEAD>> }

\* values of END_DATE: 40, 45, 50, 366, 380, 400 and 426 days from
\* START_DATE to END_DATE inclusive (the last one lies beyond 2024-02-29)
EndDates ==
    { Date(2023, 2, 9), Date(2023, 2, 14), Date(2023, 2, 19),
      Date(2024, 1, 1), Date(2024, 1, 15), Date(2024, 2, 4), Date(2024, 3, 1) }

----------------------------------------------------------------------------
(* generate_sku_data: one iteration of `while day <= END_DATE` *)

DailyRecord(date, sold, received, stk, anomaly) ==
    [date |-> date, qty_sold |-> sold, qty_received |-> received,
     stock_level |-> stk, is_anomaly |-> anomaly]

\* int(sku_info["base_daily_demand"] * 30)
InitialStock(sku_info) == sku_info.base_daily_demand * 30

\* variant: `while day < END_DATE`
LoopCond_Strict(d) == DateLT(d, END_DATE)

\* the loop condition
LoopCond(d) == DateLE(d, END_DATE)

\* raw_demand = base * sf * wf * tf, in milli
RawDemand(base, sf, wf, tf) == ((((base * sf) * wf) \div 1000) * tf) \div 1000

\* max(0, int(round(raw_demand + noise)))
DemandQty(raw_demand, noise) == Max(0, RoundHalfEven(raw_demand + noise, 1000))

\* variant: the threshold is two lead times of base demand
NeedsRestock_Double(stk, sku_info) ==
    stk < sku_info.base_daily_demand * sku_info.lead_time_days * 2

\* stock < base * lead_time_days * 1.2
NeedsRestock(stk, sku_info) ==
    stk * 10 < sku_info.base_daily_demand * sku_info.lead_time_days * 12

\* int(base * random.uniform(14, 28) * tf)
RestockQty(base, r, tf) ==
    Trunc(((base * Uniform(r, 14000, 28000)) \div 10) * tf, 100000)

\* variant: the demand is recorded as drawn, without the reduction
ClampSold_NoClamp(qty_sold, stk) == qty_sold

\* `if stock < 0: qty_sold = qty_sold + stock`, stk being stock + received - sold
ClampSold(qty_sold, stk) == IF stk < 0 THEN qty_sold + stk ELSE qty_sold

\* variant: the negative balance is kept
ClampStock_NoReset(stk) == stk

\* `if stock < 0: stock = 0`
ClampStock(stk) == IF stk < 0 THEN 0 ELSE stk

SynthDay ==
    /\ UNCHANGED appVars
    /\ pc = "synth"
    /\ LoopCond(day)
    /\ LET sku_info == SKUS[sku_i]
           base     == sku_info.base_daily_demand
           sf       == seasonal_factor(day, sku_info.seasonal_peak_month,
                                       sku_info.seasonal_amplitude)
           r1       == LCG(rng)
           wf       == weekday_factor(day, r1)
           tf       == trend_factor(day_index, sku_info.trend)
           r2       == LCG(r1)
           noise    == Gauss(r2, base * 150)
           qty_sold == DemandQty(RawDemand(base, sf, wf, tf), noise)
           restock  == NeedsRestock(stock, sku_info)
           r3       == LCG(r2)
           qty_received == IF restock THEN RestockQty(base, r3, tf) ELSE 0
           stk      == stock + qty_received - qty_sold
       IN  /\ rng' = IF restock THEN r3 ELSE r2
           /\ stock' = ClampStock(stk)
           /\ records' = Append(records,
                  DailyRecord(Strftime(day), ClampSold(qty_sold, stk), qty_received,
                              ClampStock(stk), FALSE))
           /\ clamped' = IF stk < 0 THEN clamped \cup {day_index} ELSE clamped
    /\ day' = NextDay(day)
    /\ day_index' = day_index + 1
    /\ UNCHANGED <<seed, run, first_output, SKUS, END_DATE, sku_i, pc, n_anomalies,
                   indices, idx_i, spikes, pre, stats, all_data, output_file>>

----------------------------------------------------------------------------
(* inject_anomalies *)

\* variant: range(len(daily_data))
StartPositions_All(daily_data) == Range(0, Len(daily_data))

\* range(30, len(daily_data) - 5)
StartPositions(daily_data) == Range(30, Len(daily_data) - 5)

\* variant: random.randint(1, 8)
AnomalyCount_Low(r) == RandInt(r, 1, 8)

\* n_anomalies = random.randint(8, 15)
AnomalyCount(r) == RandInt(r, 8, 15)

\* spike_multiplier = random.uniform(2.5, 5.0), in milli
SpikeMultiplier(r) == Uniform(r, 2500, 5000)

\* duration = random.randint(1, 3)
SpikeDuration(r) == RandInt(r, 1, 3)

\* variant: the quantity is divided by the multiplier
SpikedQty_Divide(qty_sold, spike_multiplier) == Trunc(qty_sold * 1000, spike_multiplier)

\* int(qty_sold * spike_multiplier)
SpikedQty(qty_sold, spike_multiplier) == Trunc(qty_sold * spike_multiplier, 1000)

\* the 0-based indices the inner loop writes: idx + d for d in range(duration),
\* kept only `if idx + d < len(daily_data)`
SpikeWindow(idx, duration, n) == { k \in idx..(idx + duration - 1) : k < n }

\* variant: the spike is also taken out of the recorded stock
ApplySpike_Propagate(daily_data, idx, duration, spike_multiplier) ==
    [i \in 1..Len(daily_data) |->
        IF (i - 1) \in idx..(idx + duration - 1)
        THEN [daily_data[i] EXCEPT
                 !.qty_sold = Trunc(daily_data[i].qty_sold * spike_multiplier, 1000),
                 !.stock_level = Max(0, daily_data[i].stock_level
                                        - Trunc(daily_data[i].qty_sold * spike_multiplier, 1000)
                                        + daily_data[i].qty_sold),
                 !.is_anomaly = TRUE]
        ELSE daily_data[i]]

\* the inner `for d in range(duration)` loop on the whole list
ApplySpike(daily_data, idx, duration, spike_multiplier) ==
    [i \in 1..Len(daily_data) |->
        IF (i - 1) \in SpikeWindow(idx, duration, Len(daily_data))
        THEN [daily_data[i] EXCEPT
                 !.qty_sold = SpikedQty(daily_data[i].qty_sold, spike_multiplier),
                 !.is_anomaly = TRUE]
        ELSE daily_data[i]]

\* the while loop ends; inject_anomalies(records, sku_info) is entered and
\* draws n_anomalies and the sample, which raises ValueError when the
\* population is smaller than n_anomalies
InjectSample ==
    /\ UNCHANGED appVars
    /\ pc = "synth"
    /\ ~LoopCond(day)
    /\ LET r1  == LCG(rng)
           n   == AnomalyCount(r1)
           pop == StartPositions(records)
           smp == sample(pop, n, r1)
       IN  /\ n_anomalies' = n
           /\ pc' = IF smp.raised THEN "error" ELSE "spike"
           /\ rng' = smp.rng
           /\ indices' = smp.value
    /\ idx_i' = 1
    /\ pre' = records
    /\ spikes' = <<>>
    /\ UNCHANGED <<seed, run, first_output, SKUS, END_DATE, sku_i, records, stock,
                   day, day_index, clamped, stats, all_data, output_file>>

\* one iteration of `for idx in indices`
InjectSpike ==
    /\ UNCHANGED appVars
    /\ pc = "spike"
    /\ idx_i <= Len(indices)
    /\ LET idx == indices[idx_i]
           r1  == LCG(rng)
           spike_multiplier == SpikeMultiplier(r1)
           r2  == LCG(r1)
           duration == SpikeDuration(r2)
       IN  /\ rng' = r2
           /\ records' = ApplySpike(records, idx, duration, spike_multiplier)
           /\ spikes' = Append(spikes, <<idx, duration, spike_multiplier>>)
    /\ idx_i' = idx_i + 1
    /\ UNCHANGED <<seed, run, first_output, SKUS, END_DATE, sku_i, pc, stock, day,
                   day_index, n_anomalies, indices, pre, clamped, stats, all_data,
                   output_file>>

----------------------------------------------------------------------------
(* compute_stats *)

\* floor(10^p * n / d) and the remainder, for d > 0, by long division
RECURSIVE DecDiv(_, _, _)
DecDiv(n, d, p) ==
    IF p = 0 THEN <<FloorDiv(n, d), n - FloorDiv(n, d) * d>>
    ELSE LET prev == DecDiv(n, d, p - 1)
         IN  <<10 * prev[1] + (10 * prev[2]) \div d, (10 * prev[2]) % d>>

\* round(n / d, p) for d > 0, in units of 10^-p: nearest, ties to even
RoundDec(n, d, p) ==
    LET qr == DecDiv(n, d, p)
    IN  IF 2 * qr[2] < d THEN qr[1]
        ELSE IF 2 * qr[2] > d THEN qr[1] + 1
        ELSE IF qr[1] % 2 = 0 THEN qr[1] ELSE qr[1] + 1

\* the largest s in lo..hi with s * s <= v
RECURSIVE ISqrtIn(_, _, _)
ISqrtIn(v, lo, hi) ==
    IF lo >= hi THEN lo
    ELSE LET mid == (lo + hi + 1) \div 2
         IN  IF mid * mid <= v THEN ISqrtIn(v, mid, hi) ELSE ISqrtIn(v, lo, mid - 1)

\* floor(math.sqrt(v)) for v >= 0
ISqrt(v) == ISqrtIn(v, 0, Min(v, 46340))

\* [d["qty_sold"] for d in window]
SoldOf(window) == [i \in 1..Len(window) |-> window[i].qty_sold]

\* round(sum(sold) / len(sold) if sold else 0, 2), in hundredths
RoundedAvg(sold) ==
    IF Len(sold) = 0 THEN 0 ELSE RoundDec(SumSeq(sold), Len(sold), 2)

\* variant: round(current_stock / avg_7)
DaysUntilStockout_Round(current_stock, sum_7, n_7) ==
    IF n_7 > 0 /\ sum_7 > 0 THEN RoundHalfEven(current_stock * n_7, sum_7) ELSE 999

\* int(current_stock / avg_7) if avg_7 > 0 else 999, avg_7 = sum_7 / n_7
DaysUntilStockout(current_stock, sum_7, n_7) ==
    IF n_7 > 0 /\ sum_7 > 0 THEN Trunc(current_stock * n_7, sum_7) ELSE 999

\* ly_start = max(0, today_idx - 365 - 30)
LyStart(daily) == Max(0, (Len(daily) - 1) - 365 - 30)

\* ly_end = max(0, today_idx - 365)
LyEnd(daily) == Max(0, (Len(daily) - 1) - 365)

\* ly_slice = daily[ly_start:ly_end], taken `if ly_end > ly_start`
LySlice(daily) ==
    IF LyEnd(daily) > LyStart(daily)
    THEN Slice(daily, LyStart(daily), LyEnd(daily))
    ELSE <<>>

\* round(yoy_change, 1) in tenths of a percent; ly_avg is the average of
\* ly_slice when `ly_end > ly_start` and avg_30 otherwise
YoyChangePct(daily) ==
    LET sold_30 == SoldOf(LastN(daily, 30))
        s30     == SumSeq(sold_30)
        n30     == Len(sold_30)
        ly      == SoldOf(LySlice(daily))
        has_ly  == LyEnd(daily) > LyStart(daily)
        ls      == IF has_ly THEN SumSeq(ly) ELSE s30
        ln      == IF has_ly THEN Len(ly) ELSE n30
    IN  IF ln > 0 /\ ls > 0 /\ n30 > 0
        THEN RoundDec(100 * (s30 * ln - ls * n30), ls * n30, 1)
        ELSE 0

\* round(std_dev, 2) in hundredths.  variance = sum((x - avg_30) ** 2) / n is
\* v / n^2 with v = n * sum(x^2) - sum(x)^2; math.sqrt(v) is taken as
\* s + (v - s^2) / (2 * s) with s = floor(sqrt(v))
StdDev30(sold_30) ==
    LET n == Len(sold_30)
        v == n * SumSeq([i \in 1..n |-> sold_30[i] * sold_30[i]])
             - SumSeq(sold_30) * SumSeq(sold_30)
        s == ISqrt(v)
    IN  IF n = 0 \/ v = 0 THEN 0
        ELSE RoundDec(2 * s * s + (v - s * s), 2 * s * n, 2)

\* round(slope, 4) in ten-thousandths.  With x_mean = (n - 1) / 2 and
\* y_mean = sum / n, numerator is num / (2 * n) and denominator is den / 4 for
\* num = sum((2i - n + 1) * (n * y[i] - sum)), den = sum((2i - n + 1) ** 2)
TrendSlope90(sold_90) ==
    LET n   == Len(sold_90)
        sm  == SumSeq(sold_90)
        num == SumSeq([i \in 1..n |-> (2 * (i - 1) - n + 1) * (n * sold_90[i] - sm)])
        den == SumSeq([i \in 1..n |-> (2 * (i - 1) - n + 1) * (2 * (i - 1) - n + 1)])
    IN  IF n > 1 /\ den # 0 THEN RoundDec(2 * num, n * den, 4) ELSE 0

\* len(monthly_totals[m]): how many records are dated in month m
MonthCount(daily, m) ==
    Cardinality({ i \in 1..Len(daily) : MonthOf(daily[i].date) = m })

\* monthly_totals[m]: the qty_sold of the records dated in month m
MonthlyTotals(daily, m) ==
    [count |-> MonthCount(daily, m),
     total |-> SumSeq([i \in 1..Len(daily) |->
                          IF MonthOf(daily[i].date) = m THEN daily[i].qty_sold ELSE 0])]

\* variant: the month's share of the total demand, scaled to 12 months
SeasonalFactor_Share(daily, m) ==
    LET mt    == MonthlyTotals(daily, m)
        total == SumSeq(SoldOf(daily))
    IN  IF Len(daily) = 0 THEN 1000
        ELSE IF total = 0 THEN 1000
        ELSE IF MonthCount(daily, m) = 0 THEN 1000
        ELSE RoundDec(mt.total * 12, total, 3)

\* seasonal_factors[str(m)] in thousandths: round(m_avg / overall_avg, 3) if
\* overall_avg else 1.0, m_avg being overall_avg for a month without records
\* and overall_avg being 1 for an empty series
SeasonalFactor(daily, m) ==
    LET mt    == MonthlyTotals(daily, m)
        total == SumSeq(SoldOf(daily))
    IN  IF Len(daily) = 0 THEN 1000
        ELSE IF total = 0 THEN 1000
        ELSE IF MonthCount(daily, m) = 0 THEN 1000
        ELSE RoundDec(mt.total * Len(daily), mt.count * total, 3)

\* sum(1 for d in last_30 if d["is_anomaly"])
RecentAnomalies(daily) ==
    Cardinality({ i \in 1..Len(LastN(daily, 30)) : LastN(daily, 30)[i].is_anomaly })

compute_stats(sku_data) ==
    LET daily  == sku_data.daily_data
        sold_7 == SoldOf(LastN(daily, 7))
        current_stock == IF Len(daily) > 0 THEN daily[Len(daily)].stock_level ELSE 0
    IN  [avg_daily_demand_7d  |-> RoundedAvg(sold_7),
         avg_daily_demand_30d |-> RoundedAvg(SoldOf(LastN(daily, 30))),
         avg_daily_demand_90d |-> RoundedAvg(SoldOf(LastN(daily, 90))),
         std_deviation_30d    |-> StdDev30(SoldOf(LastN(daily, 30))),
         trend_slope_90d      |-> TrendSlope90(SoldOf(LastN(daily, 90))),
         seasonal_factors     |-> [m \in 1..12 |-> SeasonalFactor(daily, m)],
         current_stock        |-> current_stock,
         days_until_stockout  |->
             DaysUntilStockout(current_stock, SumSeq(sold_7), Len(sold_7)),
         recent_anomaly_count |-> RecentAnomalies(daily),
         yoy_change_pct       |-> YoyChangePct(daily),
         lead_time_days       |-> sku_data.lead_time_days]

\* variant: the division is evaluated whatever its conditional says
ZeroDiv_Unguarded(evaluated, divisor) == divisor = 0

\* ZeroDivisionError of `x / divisor if <evaluated> else <sentinel>`: the
\* division runs only when the conditional holds
ZeroDiv(evaluated, divisor) == evaluated /\ divisor = 0

\* compute_stats raises: one disjunct per operation of the body that can
\* (a division, math.sqrt of a negative number, daily[-1])
compute_stats_raises(sku_data) ==
    LET daily   == sku_data.daily_data
        sold_30 == SoldOf(LastN(daily, 30))
        sold_7  == SoldOf(LastN(daily, 7))
        sold_90 == SoldOf(LastN(daily, 90))
        n       == Len(sold_90)
        v       == Len(sold_30) * SumSeq([i \in 1..Len(sold_30) |-> sold_30[i] * sold_30[i]])
                   - SumSeq(sold_30) * SumSeq(sold_30)
        den     == SumSeq([i \in 1..n |-> (2 * (i - 1) - n + 1) * (2 * (i - 1) - n + 1)])
        total   == SumSeq(SoldOf(daily))
        overall == IF Len(daily) # 0 THEN total ELSE 1
        has_ly  == LyEnd(daily) > LyStart(daily)
        ly      == SoldOf(LySlice(daily))
        ly_avg  == IF has_ly THEN (IF Len(ly) # 0 THEN SumSeq(ly) ELSE 0)
                   ELSE (IF Len(sold_30) # 0 THEN SumSeq(sold_30) ELSE 0)
    IN  \/ ZeroDiv(Len(sold_30) # 0, Len(sold_30))          \* avg_30, variance
        \/ ZeroDiv(Len(sold_7) # 0, Len(sold_7))            \* avg_7
        \/ ZeroDiv(Len(sold_90) # 0, Len(sold_90))          \* avg_90
        \/ v < 0                                            \* math.sqrt(variance)
        \/ n > 1 /\ ZeroDiv(den # 0, den)                   \* slope
        \/ ZeroDiv(Len(daily) # 0, Len(daily))              \* overall_avg
        \/ \E m \in 1..12 :                                 \* m_avg
               ZeroDiv(MonthCount(daily, m) # 0, MonthCount(daily, m))
        \/ ZeroDiv(overall # 0, overall)                    \* m_avg / overall_avg
        \/ ZeroDiv(Len(daily) # 0, Len(daily))              \* daily[-1]
        \/ ZeroDiv(Len(sold_7) # 0 /\ SumSeq(sold_7) > 0, SumSeq(sold_7))  \* current_stock / avg_7
        \/ has_ly /\ ZeroDiv(Len(ly) # 0, Len(ly))          \* ly_avg
        \/ ZeroDiv(ly_avg > 0, ly_avg)                      \* yoy_change

----------------------------------------------------------------------------
(* main *)

\* the dict generate_sku_data returns
SkuData(sku_info, daily_data) ==
    [sku |-> sku_info.sku, name |-> sku_info.name, category |-> sku_info.category,
     location |-> sku_info.location, unit_cost |-> sku_info.unit_cost,
     sell_price |-> sku_info.sell_price, lead_time_days |-> sku_info.lead_time_days,
     daily_data |-> daily_data]

\* the value main stores under all_data[sku]
Entry(sku_info, st, daily_data) ==
    [metadata |-> [sku |-> sku_info.sku, name |-> sku_info.name,
                   category |-> sku_info.category, location |-> sku_info.location,
                   unit_cost |-> sku_info.unit_cost, sell_price |-> sku_info.sell_price,
                   lead_time_days |-> sku_info.lead_time_days],
     stats |-> st,
     daily_data |-> daily_data]

NoStats == [none |-> TRUE]

\* variant: generate_sku_data returns once the first spike has been applied
InjectionDone_Early(i, idxs) == i > 1

\* `for idx in indices` is exhausted: inject_anomalies returns
InjectionDone(i, idxs) == i > Len(idxs)

\* the for loop of inject_anomalies ends, generate_sku_data returns and main
\* calls compute_stats(sku_data); an exception of compute_stats leaves main
ComputeStats ==
    /\ UNCHANGED appVars
    /\ pc = "spike"
    /\ InjectionDone(idx_i, indices)
    /\ LET sku_data == SkuData(SKUS[sku_i], records)
           raised   == compute_stats_raises(sku_data)
       IN  /\ stats' = IF raised THEN stats ELSE compute_stats(sku_data)
           /\ pc' = IF raised THEN "error" ELSE "store"
    /\ UNCHANGED <<seed, rng, run, first_output, SKUS, END_DATE, sku_i, records, stock,
                   day, day_index, n_anomalies, indices, idx_i, spikes, pre, clamped,
                   all_data, output_file>>

\* variant: the loop over SKUS stops one profile early
LoopContinues_SkipLast(i, skus) == i + 1 < Len(skus)

\* `for sku_info in SKUS` has another profile after the i-th
LoopContinues(i, skus) == i < Len(skus)

\* all_data[sku_info["sku"]] = {...}, then the next iteration of
\* `for sku_info in SKUS` enters generate_sku_data, or the loop ends
StoreEntry ==
    /\ UNCHANGED appVars
    /\ pc = "store"
    /\ LET sku_info == SKUS[sku_i]
       IN  all_data' = [k \in (DOMAIN all_data) \cup {sku_info.sku} |->
                           IF k = sku_info.sku
                           THEN Entry(sku_info, stats, records)
                           ELSE all_data[k]]
    /\ sku_i' = sku_i + 1
    /\ IF LoopContinues(sku_i, SKUS)
       THEN /\ pc' = "synth"
            /\ records' = <<>>
            /\ stock' = InitialStock(SKUS[sku_i + 1])
            /\ day' = START_DATE
            /\ day_index' = 0
            /\ clamped' = {}
       ELSE /\ pc' = "write"
            /\ UNCHANGED <<records, stock, day, day_index, clamped>>
    /\ UNCHANGED <<seed, rng, run, first_output, SKUS, END_DATE, n_anomalies, indices,
                   idx_i, spikes, pre, stats, output_file>>

\* json.dump(all_data, f)
WriteDataset ==
    /\ UNCHANGED appVars
    /\ pc = "write"
    /\ output_file' = <<all_data>>
    /\ pc' = "done"
    /\ UNCHANGED <<seed, rng, run, first_output, SKUS, END_DATE, sku_i, records, stock,
                   day, day_index, n_anomalies, indices, idx_i, spikes, pre, clamped,
                   stats, all_data>>

\* the serving side has not started: nothing seeded, served or cached
AppIdle ==
    /\ firestore = <<>>
    /\ served = [store |-> <<>>, fallback |-> <<>>]
    /\ cache = <<>>
    /\ cache_lock = "free"
    /\ now = 0
    /\ req = <<>>

\* variant: the generator is seeded from a source that differs between
\* executions (random.seed() without an argument)
random_seed_unseeded(a) == (a + 7919 * run) % RandMod

\* the state of the generator after random.seed(a)
random_seed(a) == a % RandMod

\* a fresh interpreter, before the module body has run
Fresh(sd, skus, end, r, first) ==
    /\ run = r
    /\ seed = sd
    /\ rng = 0
    /\ first_output = first
    /\ SKUS = skus
    /\ END_DATE = end
    /\ sku_i = 1
    /\ pc = "import"
    /\ records = <<>>
    /\ stock = 0
    /\ day = START_DATE
    /\ day_index = 0
    /\ n_anomalies = 0
    /\ indices = <<>>
    /\ idx_i = 1
    /\ spikes = <<>>
    /\ pre = <<>>
    /\ clamped = {}
    /\ stats = NoStats
    /\ all_data = <<>>
    /\ output_file = <<>>

\* the module body runs random.seed(seed); main starts with all_data = {}
\* and its first iteration enters generate_sku_data
Import ==
    /\ UNCHANGED appVars
    /\ pc = "import"
    /\ rng' = random_seed(seed)
    /\ pc' = "synth"
    /\ stock' = InitialStock(SKUS[1])
    /\ UNCHANGED <<seed, run, first_output, SKUS, END_DATE, sku_i, records, day,
                   day_index, n_anomalies, indices, idx_i, spikes, pre, clamped, stats,
                   all_data, output_file>>

\* what an execution leaves behind
Outcome ==
    [status |-> pc, output_file |-> output_file, all_data |-> all_data,
     daily_data |-> records]

\* the program is run a second time with the same seed, profiles and dates;
\* what the first execution produced is remembered
Rerun ==
    /\ UNCHANGED appVars
    /\ pc \in {"done", "error"}
    /\ run = 1
    /\ run' = 2
    /\ first_output' = <<Outcome>>
    /\ rng' = 0
    /\ sku_i' = 1
    /\ pc' = "import"
    /\ records' = <<>>
    /\ stock' = 0
    /\ day' = START_DATE
    /\ day_index' = 0
    /\ n_anomalies' = 0
    /\ indices' = <<>>
    /\ idx_i' = 1
    /\ spikes' = <<>>
    /\ pre' = <<>>
    /\ clamped' = {}
    /\ stats' = NoStats
    /\ all_data' = <<>>
    /\ output_file' = <<>>
    /\ UNCHANGED <<seed, SKUS, END_DATE>>

Init ==
    \E sd \in SEED..(SEED + MaxSeed), skus \in SkuLists, end \in EndDates :
        Fresh(sd, skus, end, 1, <<>>) /\ AppIdle

Next ==
    \/ Import
    \/ SynthDay
    \/ InjectSample
    \/ InjectSpike
    \/ ComputeStats
    \/ StoreEntry
    \/ WriteDataset
    \/ Rerun

Spec == Init /\ [][Next]_vars

----------------------------------------------------------------------------
(* compute_stats called directly on an arbitrary short series *)

\* the dates of a series of n records starting at START_DATE
RECURSIVE DateAt(_)
DateAt(i) == IF i = 1 THEN START_DATE ELSE NextDay(DateAt(i - 1))

\* series of n records: any qty_sold in 0..MaxQty per record, any stock_level
\* in 0..MaxStock on the last record
SeriesOf(n) ==
    { [i \in 1..n |->
          DailyRecord(Strftime(DateAt(i)), q[i], 0, IF i = n THEN s ELSE 0, FALSE)] :
      q \in [1..n -> 0..MaxQty], s \in 0..MaxStock }

InitStats ==
    \E n \in 0..MaxLen :
        \E series \in SeriesOf(n) :
            /\ run = 1
            /\ seed = SEED
            /\ rng = 0
            /\ first_output = <<>>
            /\ SKUS = <<ELEC_PCB_001>>
            /\ END_DATE = START_DATE
            /\ sku_i = 1
            /\ pc = "stats_input"
            /\ records = series
            /\ stock = 0
            /\ day = START_DATE
            /\ day_index = 0
            /\ n_anomalies = 0
            /\ indices = <<>>
            /\ idx_i = 1
            /\ spikes = <<>>
            /\ pre = <<>>
            /\ clamped = {}
            /\ stats = NoStats
            /\ all_data = <<>>
            /\ output_file = <<>>
            /\ AppIdle

\* stats = compute_stats(sku_data)
ApplyComputeStats ==
    /\ UNCHANGED appVars
    /\ pc = "stats_input"
    /\ LET sku_data == SkuData(SKUS[sku_i], records)
           raised   == compute_stats_raises(sku_data)
       IN  /\ stats' = IF raised THEN stats ELSE compute_stats(sku_data)
           /\ pc' = IF raised THEN "error" ELSE "stats_done"
    /\ UNCHANGED <<seed, rng, run, first_output, SKUS, END_DATE, sku_i, records, stock,
                   day, day_index, n_anomalies, indices, idx_i, spikes, pre, clamped,
                   all_data, output_file>>

NextStats == ApplyComputeStats

SpecStats == InitStats /\ [][NextStats]_vars

----------------------------------------------------------------------------
(* seed_firestore.py and the read paths of app.py *)

\* longest series loaded into the document store
MaxHorizon == 100

\* record["date"][:7], the "YYYY-MM" prefix of a date string
MonthKey(date) == <<date[1], date[2]>>

\* "YYYY-MM" keys compared as strings
KeyLT(a, b) == a[1] < b[1] \/ (a[1] = b[1] /\ a[2] < b[2])

\* "YYYY-MM-DD" strings compared as strings
DateStrLE(a, b) ==
    \/ KeyLT(MonthKey(a), MonthKey(b))
    \/ (MonthKey(a) = MonthKey(b) /\ a[3] <= b[3])

\* chunk_daily_by_month(daily_data): month key -> its records, in input order
chunk_daily_by_month(daily_data) ==
    [k \in { MonthKey(daily_data[i].date) : i \in 1..Len(daily_data) } |->
        SelectSeq(daily_data, LAMBDA record : MonthKey(record.date) = k)]

\* the document seed_firestore.main writes for one product: metadata and stats
\* as top-level fields, the daily records as one sub-document per month
SeededDocument(sku_data) ==
    [metadata   |-> sku_data.metadata,
     stats      |-> sku_data.stats,
     daily_data |-> chunk_daily_by_month(sku_data.daily_data)]

\* order_by("__name__", direction=DESCENDING): the document names, largest first
RECURSIVE Descending(_)
Descending(names) ==
    IF names = {} THEN <<>>
    ELSE LET top == CHOOSE k \in names : \A j \in names : ~KeyLT(k, j)
         IN  <<top>> \o Descending(names \ {top})

\* .limit(n)
Limit(s, n) == SubSeq(s, 1, Min(n, Len(s)))

\* recent_daily.extend(records) for every document of the query, in its order
RECURSIVE ExtendAll(_, _)
ExtendAll(docs, names) ==
    IF names = <<>> THEN <<>>
    ELSE docs[Head(names)] \o ExtendAll(docs, Tail(names))

\* list.sort(key=lambda r: r["date"]): ascending by date string, records
\* with equal dates keeping their order; rank[i] is where s[i] ends up
SortByDate(s) ==
    LET n    == Len(s)
        rank == [i \in 1..n |->
                    1 + Cardinality({ j \in 1..n :
                            \/ ~DateStrLE(s[i].date, s[j].date)
                            \/ (s[j].date = s[i].date /\ j < i) })]
        at   == [p \in 1..n |-> CHOOSE i \in 1..n : rank[i] = p]
    IN  [p \in 1..n |-> s[at[p]]]

\* get_sku_data(sku) with Firestore configured; <<>> is None
get_sku_data(sku) ==
    IF sku \notin DOMAIN firestore THEN <<>>
    ELSE LET data         == firestore[sku]
             daily_docs   == Limit(Descending(DOMAIN data.daily_data), 3)
             recent_daily == SortByDate(ExtendAll(data.daily_data, daily_docs))
         IN  <<[sku |-> sku, metadata |-> data.metadata, stats |-> data.stats,
                recent_daily |-> LastN(recent_daily, 90)]>>

\* _get_fallback_sku(sku) on the loaded local file; <<>> is None
_get_fallback_sku(sku) ==
    LET data == IF output_file = <<>> THEN <<>> ELSE output_file[1]
    IN  IF sku \notin DOMAIN data THEN <<>>
        ELSE <<[sku |-> sku, metadata |-> data[sku].metadata,
                stats |-> data[sku].stats,
                recent_daily |-> LastN(data[sku].daily_data, 90)]>>

\* datetime.fromordinal(o) for a day of the years 2023..2027
FromOrdinal(o) ==
    LET y == CHOOSE yy \in 2023..2027 :
                 ToOrdinal(Date(yy, 1, 1)) <= o /\ o < ToOrdinal(Date(yy + 1, 1, 1))
        m == CHOOSE mm \in 1..12 :
                 /\ ToOrdinal(Date(y, mm, 1)) <= o
                 /\ o < ToOrdinal(Date(y, mm, 1)) + DaysInMonth(y, mm)
    IN  Date(y, m, o - ToOrdinal(Date(y, m, 1)) + 1)

\* START_DATE + timedelta(days=i), the day of the record at 0-based index i
DayOfIndex(i) == FromOrdinal(ToOrdinal(START_DATE) + i)

\* a series of n records from START_DATE on in which nothing is sold
QuietSeries(sku_info, n) ==
    [i \in 1..n |->
        DailyRecord(Strftime(DayOfIndex(i - 1)), 0, 0, InitialStock(sku_info), FALSE)]

\* the generator has written a dataset of one product over n days
InitServe ==
    \E n \in 1..MaxHorizon :
        LET series == QuietSeries(ELEC_PCB_001, n)
            entry  == Entry(ELEC_PCB_001,
                            compute_stats(SkuData(ELEC_PCB_001, series)), series)
        IN  /\ run = 1
            /\ seed = SEED
            /\ rng = random_seed(SEED)
            /\ first_output = <<>>
            /\ SKUS = <<ELEC_PCB_001>>
            /\ END_DATE = DayOfIndex(n - 1)
            /\ sku_i = 2
            /\ pc = "done"
            /\ records = series
            /\ stock = InitialStock(ELEC_PCB_001)
            /\ day = DayOfIndex(n)
            /\ day_index = n
            /\ n_anomalies = 0
            /\ indices = <<>>
            /\ idx_i = 1
            /\ spikes = <<>>
            /\ pre = series
            /\ clamped = {}
            /\ stats = entry.stats
            /\ all_data = [k \in {ELEC_PCB_001.sku} |-> entry]
            /\ output_file = <<[k \in {ELEC_PCB_001.sku} |-> entry]>>
            /\ AppIdle

\* seed_firestore.main: every product of the local file is written to the
\* collection
SeedFirestore ==
    /\ output_file # <<>>
    /\ firestore = <<>>
    /\ firestore' = [sku \in DOMAIN output_file[1] |-> SeededDocument(output_file[1][sku])]
    /\ UNCHANGED genVars
    /\ UNCHANGED <<served, cache, cache_lock, now, req>>

\* forecast(sku) calls get_sku_data(sku) in an app that has Firestore
ServeFromFirestore ==
    /\ firestore # <<>>
    /\ served.store = <<>>
    /\ \E sku \in DOMAIN firestore :
           served' = [served EXCEPT !.store = get_sku_data(sku)]
    /\ UNCHANGED genVars
    /\ UNCHANGED <<firestore, cache, cache_lock, now, req>>

\* forecast(sku) calls get_sku_data(sku) in an app without Firestore (db is
\* None), which reads the local file
ServeFromFallback ==
    /\ output_file # <<>>
    /\ served.fallback = <<>>
    /\ \E sku \in DOMAIN output_file[1] :
           served' = [served EXCEPT !.fallback = _get_fallback_sku(sku)]
    /\ UNCHANGED genVars
    /\ UNCHANGED <<firestore, cache, cache_lock, now, req>>

NextServe ==
    \/ SeedFirestore
    \/ ServeFromFirestore
    \/ ServeFromFallback

SpecServe == InitServe /\ [][NextServe]_vars

----------------------------------------------------------------------------
(* The response cache of app.py and the /api/insights handler *)

\* CACHE_TTL, in seconds
CACHE_TTL == 300

\* largest value of time.time() explored, in seconds
MaxClock == 400

\* the requests served concurrently, one handler thread each
Requests == {"r1", "r2"}

\* the cache key of the insights endpoint
InsightsKey == "insights"

\* a request before its handler starts
NewRequest ==
    [pc |-> "idle", refresh |-> FALSE, missed |-> FALSE, hit |-> FALSE,
     called |-> FALSE, wrote |-> FALSE, data |-> <<>>, response |-> <<>>,
     overlap |-> {}]

\* variant: the block is entered without taking the lock
CanAcquire_NoLock(lock) == TRUE

\* `with _cache_lock:` can enter
CanAcquire(lock) == lock = "free"

\* entry and (time.time() - entry["ts"]) < CACHE_TTL
ValidEntry(c, key, t) == key \in DOMAIN c /\ (t - c[key].ts) < CACHE_TTL

\* request u is past its cache lookup and has not stored its result yet
InFlight(u) == req[u].pc \in {"fetch", "set_wait", "set_locked"}

InitCache ==
    /\ Fresh(SEED, <<ELEC_PCB_001>>, START_DATE, 1, <<>>)
    /\ firestore = <<>>
    /\ served = [store |-> <<>>, fallback |-> <<>>]
    /\ cache = <<>>
    /\ cache_lock = "free"
    /\ now = 0
    /\ req = [r \in Requests |-> NewRequest]

\* GET /api/insights arrives; with refresh=1 the cache lookup is skipped
Arrive(r) ==
    /\ req[r].pc = "idle"
    /\ \E refresh \in BOOLEAN :
           req' = [req EXCEPT ![r].refresh = refresh,
                              ![r].pc = IF refresh THEN "fetch" ELSE "get_wait"]
    /\ UNCHANGED genVars
    /\ UNCHANGED <<firestore, served, cache, cache_lock, now>>

\* cache_get: `with _cache_lock:` is entered
CacheGetEnter(r) ==
    /\ req[r].pc = "get_wait"
    /\ CanAcquire(cache_lock)
    /\ cache_lock' = r
    /\ req' = [req EXCEPT ![r].pc = "get_locked"]
    /\ UNCHANGED genVars
    /\ UNCHANGED <<firestore, served, cache, now>>

\* cache_get: the entry is read and checked, the lock released; a valid
\* entry is the response, otherwise the handler goes on to build one
CacheGetExit(r) ==
    /\ req[r].pc = "get_locked"
    /\ cache_lock' = "free"
    /\ IF ValidEntry(cache, InsightsKey, now)
       THEN req' = [req EXCEPT ![r].pc = "done", ![r].hit = TRUE,
                               ![r].response = cache[InsightsKey].data]
       ELSE req' = [req EXCEPT ![r].pc = "fetch", ![r].missed = TRUE,
                               ![r].overlap = { u \in Requests \ {r} : InFlight(u) }]
    /\ UNCHANGED genVars
    /\ UNCHANGED <<firestore, served, cache, now>>

\* get_all_sku_stats, call_llm and json.loads: no data (404), an answer that
\* does not parse (returned uncached), or a parsed answer
CallModel(r) ==
    /\ req[r].pc = "fetch"
    /\ \E outcome \in {"no_data", "unparsable", "parsed"} :
           req' = [req EXCEPT
                     ![r].called = (outcome # "no_data"),
                     ![r].data = IF outcome = "parsed" THEN <<r, now>> ELSE <<>>,
                     ![r].response = IF outcome = "parsed" THEN <<>> ELSE <<outcome>>,
                     ![r].pc = IF outcome = "parsed" THEN "set_wait" ELSE "done"]
    /\ UNCHANGED genVars
    /\ UNCHANGED <<firestore, served, cache, cache_lock, now>>

\* cache_set: `with _cache_lock:` is entered
CacheSetEnter(r) ==
    /\ req[r].pc = "set_wait"
    /\ CanAcquire(cache_lock)
    /\ cache_lock' = r
    /\ req' = [req EXCEPT ![r].pc = "set_locked"]
    /\ UNCHANGED genVars
    /\ UNCHANGED <<firestore, served, cache, now>>

\* cache_set: _cache[key] = {"data": data, "ts": time.time()}, the lock is
\* released and the handler returns the parsed answer
CacheSetExit(r) ==
    /\ req[r].pc = "set_locked"
    /\ cache' = [k \in (DOMAIN cache) \cup {InsightsKey} |->
                    IF k = InsightsKey THEN [data |-> req[r].data, ts |-> now]
                    ELSE cache[k]]
    /\ cache_lock' = "free"
    /\ req' = [req EXCEPT ![r].pc = "done", ![r].wrote = TRUE,
                          ![r].response = req[r].data]
    /\ UNCHANGED genVars
    /\ UNCHANGED <<firestore, served, now>>

\* time passes
Tick ==
    /\ now + 100 <= MaxClock
    /\ now' = now + 100
    /\ UNCHANGED genVars
    /\ UNCHANGED <<firestore, served, cache, cache_lock, req>>

NextCache ==
    \/ \E r \in Requests : Arrive(r)
    \/ \E r \in Requests : CacheGetEnter(r)
    \/ \E r \in Requests : CacheGetExit(r)
    \/ \E r \in Requests : CallModel(r)
    \/ \E r \in Requests : CacheSetEnter(r)
    \/ \E r \in Requests : CacheSetExit(r)
    \/ Tick

SpecCache == InitCache /\ [][NextCache]_vars

----------------------------------------------------------------------------
(* Properties *)

\* the program is inside or just after generate_sku_data for SKUS[sku_i]
InSeries == pc \in {"synth", "spike", "store", "error"}

\* inject_anomalies has been entered for the current series
Injecting == pc \in {"spike", "store", "error"}

\* stock carried into record i (1-based) of the current series
StockBefore(i) ==
    IF i = 1 THEN InitialStock(SKUS[sku_i]) ELSE records[i - 1].stock_level

\* what was available for sale on the day of record i
Available(i) == StockBefore(i) + records[i].qty_received

\* the proleptic ordinal of a date string
OrdinalOf(s) == ToOrdinal(Date(s[1], s[2], s[3]))

\* number of days from START_DATE to END_DATE inclusive
Horizon == ToOrdinal(END_DATE) - ToOrdinal(START_DATE) + 1

\* the 0-based index k lies inside the window of a spike applied so far
Touched(k) ==
    \E j \in 1..Len(spikes) : spikes[j][1] <= k /\ k < spikes[j][1] + spikes[j][2]

Flagged == { i \in 1..Len(records) : records[i].is_anomaly }

\* C1: stock_level is >= 0 in every record of every series, while it is built,
\* when it is returned and once stored; on a day where the clamp ran the
\* recorded stock is exactly 0.
C1_StockNeverNegative ==
    /\ stock >= 0
    /\ \A i \in 1..Len(records) : records[i].stock_level >= 0
    /\ \A k \in DOMAIN all_data :
           \A i \in 1..Len(all_data[k].daily_data) :
               all_data[k].daily_data[i].stock_level >= 0
    /\ InSeries => \A d \in clamped : records[d + 1].stock_level = 0

\* a returned series on which the clamp ran at least once
C1_Witness == pc = "store" /\ clamped # {}

\* C2 as stated: in the returned series (after injection) every record has
\* qty_sold <= stock_before + qty_received.
C2_SoldWithinAvailable ==
    pc = "store" => \A i \in 1..Len(records) : records[i].qty_sold <= Available(i)

\* C2 amended: every record that is not anomaly-flagged has
\* qty_sold <= stock_before + qty_received (so does every record before
\* injection, when none is flagged).
C2_UnflaggedSoldWithinAvailable ==
    InSeries =>
        \A i \in 1..Len(records) :
            ~records[i].is_anomaly => records[i].qty_sold <= Available(i)

\* a returned series with an unflagged clamped day and a flagged day that
\* sold more than was available
C2_Witness ==
    /\ pc = "store"
    /\ \E i \in 1..Len(records) :
           ~records[i].is_anomaly /\ (i - 1) \in clamped
    /\ \E j \in 1..Len(records) :
           records[j].is_anomaly /\ records[j].qty_sold > Available(j)

\* record i is dated START_DATE + (i - 1) days, a valid calendar date
DatedByIndex(i) ==
    /\ OrdinalOf(records[i].date) = ToOrdinal(START_DATE) + i - 1
    /\ records[i].date[2] \in 1..12
    /\ records[i].date[3] \in 1..DaysInMonth(records[i].date[1], records[i].date[2])

\* C3: the series has one record per calendar day from START_DATE to
\* END_DATE inclusive: each record appended is dated START_DATE + (i - 1)
\* days at its index i, and once the loop has ended every record is, the
\* series has as many records as there are days, the first is START_DATE
\* and the last is END_DATE.
C3_DatesContiguous ==
    /\ (pc = "synth" /\ Len(records) > 0) => DatedByIndex(Len(records))
    /\ Injecting =>
           /\ \A i \in 1..Len(records) : DatedByIndex(i)
           /\ Len(records) = Horizon
           /\ records[1].date = Strftime(START_DATE)
           /\ records[Len(records)].date = Strftime(END_DATE)

\* a finished series of 426 days, which crosses month ends, a year end and
\* the 29th of February
C3_Witness ==
    /\ pc = "store"
    /\ Len(records) = 426
    /\ records[425].date = <<2024, 2, 29>>
    /\ records[426].date = <<2024, 3, 1>>

C5_InjectOnlyIncreases ==
    Injecting =>
        /\ Len(records) = Len(pre)
        /\ \A i \in 1..Len(pre) :
               /\ records[i].date = pre[i].date
               /\ records[i].qty_sold >= pre[i].qty_sold

\* injection has finished and raised qty_sold somewhere
C5_Witness ==
    /\ pc = "store"
    /\ \E i \in 1..Len(pre) : records[i].qty_sold > pre[i].qty_sold

\* C6: inject_anomalies leaves stock_level, qty_received and date of every
\* record as they were, and leaves every record outside the spike windows
\* applied so far entirely as it was.
C6_InjectFrame ==
    Injecting =>
        /\ Len(records) = Len(pre)
        /\ \A i \in 1..Len(pre) :
               /\ records[i].stock_level = pre[i].stock_level
               /\ records[i].qty_received = pre[i].qty_received
               /\ records[i].date = pre[i].date
               /\ ~Touched(i - 1) => records[i] = pre[i]

\* injection has finished; a record with stock inside a window got a larger
\* qty_sold, and some record lies outside every window
C6_Witness ==
    /\ pc = "store"
    /\ \E i \in 1..Len(pre) :
           /\ Touched(i - 1)
           /\ records[i].qty_sold > pre[i].qty_sold
           /\ records[i].stock_level > 0
    /\ \E i \in 1..Len(pre) : ~Touched(i - 1)

\* C7: n_anomalies is in 8..15; when the positions 30 .. length-6 are fewer
\* than n_anomalies, inject_anomalies ends in an error with no record
\* modified and no spike applied; otherwise it proceeds with n_anomalies
\* pairwise distinct positions, all in 30 .. length-6.
C7_ShortSeriesFails ==
    Injecting =>
        /\ n_anomalies \in 8..15
        /\ IF n_anomalies > Max(0, Len(pre) - 35)
           THEN /\ pc = "error"
                /\ records = pre
                /\ spikes = <<>>
                /\ indices = <<>>
           ELSE /\ pc # "error"
                /\ Len(indices) = n_anomalies
                /\ \A i \in 1..Len(indices) : indices[i] \in 30..(Len(pre) - 6)
                /\ \A i, j \in 1..Len(indices) : indices[i] = indices[j] => i = j

\* the series has positions to offer, but fewer than were asked for
C7_Witness == pc = "error" /\ Len(pre) = 45 /\ n_anomalies > 10

\* C8: when injection succeeds on a series over D days, the series has
\* exactly D records, pairwise distinct dates and at least 8 flagged records.
C8_EndToEnd ==
    pc = "store" =>
        /\ Len(records) = Horizon
        /\ \A i, j \in 1..Len(records) : records[i].date = records[j].date => i = j
        /\ Cardinality(Flagged) >= 8

\* a returned series over exactly 400 days
C8_Witness == pc = "store" /\ Horizon = 400 /\ Len(records) = 400

\* C9 as stated: yoy_change_pct is 0 for every series shorter than 395
\* records.
C9_YoyZeroUnder395 ==
    (pc = "store" /\ Len(records) < 395) => stats.yoy_change_pct = 0

StatsKeys ==
    {"avg_daily_demand_7d", "avg_daily_demand_30d", "avg_daily_demand_90d",
     "std_deviation_30d", "trend_slope_90d", "seasonal_factors", "current_stock",
     "days_until_stockout", "recent_anomaly_count", "yoy_change_pct",
     "lead_time_days"}

\* C11: compute_stats never raises, whatever the series (empty, one record,
\* nothing sold); it returns a record with all eleven keys in which every
\* computation over an empty window or with a zero denominator holds its
\* sentinel: 0 for the averages, the standard deviation, the slope and the
\* year-over-year change, 1.0 for the seasonal ratios, 999 for the stockout.
C11_StatsNeverRaise ==
    /\ pc # "error"
    /\ pc = "stats_done" =>
        /\ DOMAIN stats = StatsKeys
        /\ DOMAIN stats.seasonal_factors = 1..12
        /\ Len(records) = 0 =>
              /\ stats.avg_daily_demand_7d = 0
              /\ stats.avg_daily_demand_30d = 0
              /\ stats.avg_daily_demand_90d = 0
              /\ stats.std_deviation_30d = 0
              /\ stats.current_stock = 0
        /\ Len(records) <= 1 => stats.trend_slope_90d = 0
        /\ (\A i \in 1..Len(records) : records[i].qty_sold = 0) =>
              /\ \A m \in 1..12 : stats.seasonal_factors[m] = 1000
              /\ stats.days_until_stockout = 999
              /\ stats.yoy_change_pct = 0
              /\ stats.trend_slope_90d = 0
              /\ stats.std_deviation_30d = 0

\* compute_stats has returned for the empty series
C11_Witness ==
    /\ pc = "stats_done"
    /\ Len(records) = 0
    /\ stats.days_until_stockout = 999
    /\ stats.seasonal_factors[1] = 1000

\* sum of the 12 seasonal factors of the current product, in thousandths
SeasonalSum == SumSeq([m \in 1..12 |-> stats.seasonal_factors[m]])

\* sum over the months of (records dated in the month) * (seasonal factor)
SeasonalWeightedSum ==
    SumSeq([m \in 1..12 |-> MonthlyTotals(records, m).count * stats.seasonal_factors[m]])

ValidProfile(sku_info) ==
    /\ sku_info.lead_time_days > 0
    /\ sku_info.base_daily_demand > 0
    /\ sku_info.seasonal_peak_month \in 1..12

\* C13 as stated: when a configured profile is invalid, the run stops before
\* the synthesis of any product begins and no dataset is produced.
C13_InvalidProfileAborts ==
    (\E i \in 1..Len(SKUS) : ~ValidProfile(SKUS[i])) =>
        /\ pc \in {"import", "error"}
        /\ records = <<>>
        /\ all_data = <<>>
        /\ output_file = <<>>

\* the identifiers configured in SKUS
ConfiguredSkus == { SKUS[i].sku : i \in 1..Len(SKUS) }

\* entry e is a complete entry for profile sku_info
CompleteEntry(e, sku_info) ==
    /\ DOMAIN e = {"metadata", "stats", "daily_data"}
    /\ e.metadata.sku = sku_info.sku
    /\ e.metadata.lead_time_days = sku_info.lead_time_days
    /\ DOMAIN e.stats = StatsKeys
    /\ Len(e.daily_data) = Horizon

\* C14: when a product raises the run ends and the dataset is not written;
\* the dataset is written only once every configured profile has been
\* processed, and then holds one complete entry (metadata, stats, daily_data)
\* for every configured identifier and nothing else.
C14_AllOrNothing ==
    /\ [](pc = "error" => output_file = <<>>)
    /\ [](output_file # <<>> =>
            /\ pc = "done"
            /\ sku_i = Len(SKUS) + 1
            /\ DOMAIN output_file[1] = ConfiguredSkus
            /\ \A i \in 1..Len(SKUS) :
                   CompleteEntry(output_file[1][SKUS[i].sku], SKUS[i]))
    /\ [][pc = "error" => (pc' = "import" /\ output_file' = <<>>)]_vars

\* the first of two configured products raised after its synthesis: the
\* second one is never processed and nothing is written
C14_Witness ==
    /\ pc = "error"
    /\ Len(SKUS) = 2
    /\ sku_i = 1
    /\ Len(records) = Horizon
    /\ output_file = <<>>

\* C15 as stated: the recent_daily of a product is the trailing 90 records of
\* its daily_data in date order, whether it is read back from the monthly
\* documents of the store or from the local file.
C15_RecentDailySame ==
    \A sku \in DOMAIN output_file[1] :
        LET trailing == LastN(output_file[1][sku].daily_data, 90)
        IN  /\ served.fallback # <<>> => served.fallback[1].recent_daily = trailing
            /\ served.store # <<>> => served.store[1].recent_daily = trailing

\* both requests missed while the other was past its own lookup and had not
\* stored yet, and both invoked the model and stored an entry
DoubleFill(r, u) ==
    /\ r # u
    /\ u \in req[r].overlap
    /\ req[r].missed /\ req[u].missed
    /\ req[r].called /\ req[u].called
    /\ req[r].wrote /\ req[u].wrote

InLock == { r \in Requests : req[r].pc \in {"get_locked", "set_locked"} }

RecurrenceAt(s, i) ==
    s[i].stock_level =
        (IF i = 1 THEN InitialStock(SKUS[sku_i]) ELSE s[i - 1].stock_level)
        + s[i].qty_received - s[i].qty_sold

\* C17: before injection every record satisfies stock_level[i] =
\* stock_level[i-1] + qty_received[i] - qty_sold[i], the stock before the
\* first record being 30 * base_daily_demand; qty_sold is the clamped value,
\* so the equality also holds on the days where the clamp ran, with
\* stock_level 0.
C17_StockRecurrence ==
    /\ (pc = "synth" /\ Len(records) > 0) =>
           /\ RecurrenceAt(records, Len(records))
           /\ (Len(records) - 1) \in clamped => records[Len(records)].stock_level = 0
    /\ Injecting =>
           \A i \in 1..Len(pre) :
               /\ RecurrenceAt(pre, i)
               /\ (i - 1) \in clamped => pre[i].stock_level = 0

\* a finished series with a day on which the clamp ran and something was
\* still sold
C17_Witness ==
    /\ pc = "spike"
    /\ \E d \in clamped : pre[d + 1].qty_sold > 0 /\ pre[d + 1].stock_level = 0

\* the stock carried into record i is at or above 1.2 * base * lead_time
AtOrAboveThreshold(i) ==
    StockBefore(i) * 10 >=
        SKUS[sku_i].base_daily_demand * SKUS[sku_i].lead_time_days * 12

\* record i received nothing if the stock carried in was at or above the
\* threshold, and sold no more than that stock plus what it received
RestockRuleAt(i) ==
    /\ AtOrAboveThreshold(i) => records[i].qty_received = 0
    /\ records[i].qty_received >= 0
    /\ ~records[i].is_anomaly => records[i].qty_sold <= Available(i)

\* C18: qty_received is 0 on every day whose carried-in stock is at or above
\* 1.2 * base_daily_demand * lead_time_days, so a restock arrives only
\* strictly below it; the restock counts before the sales of the day are
\* deducted, so a day can sell up to the carried-in stock plus the restock.
C18_RestockBelowThreshold ==
    /\ (pc = "synth" /\ Len(records) > 0) => RestockRuleAt(Len(records))
    /\ Injecting => \A i \in 1..Len(records) : RestockRuleAt(i)

\* a day that received a restock and sold more than the stock carried in
C18_Witness ==
    /\ pc = "synth"
    /\ Len(records) > 0
    /\ records[Len(records)].qty_received > 0
    /\ records[Len(records)].qty_sold > StockBefore(Len(records))
    /\ ~AtOrAboveThreshold(Len(records))

\* C19: when inject_anomalies does not raise, its start positions are
\* pairwise distinct and lie in 30 .. length-6, every spike applied ran its
\* whole duration (1 to 3 days) on valid indices, and the first 30 records
\* are neither modified nor flagged.
C19_SpikesFitAfterWarmup ==
    pc \in {"spike", "store"} =>
        /\ \A a, b \in 1..Len(indices) : indices[a] = indices[b] => a = b
        /\ \A a \in 1..Len(indices) :
               30 <= indices[a] /\ indices[a] <= Len(pre) - 6
        /\ \A j \in 1..Len(spikes) :
               /\ spikes[j][2] \in 1..3
               /\ spikes[j][1] + spikes[j][2] - 1 <= Len(pre) - 1
               /\ \A d \in 0..(spikes[j][2] - 1) :
                      records[spikes[j][1] + d + 1].is_anomaly
        /\ \A i \in 1..Min(30, Len(pre)) :
               records[i] = pre[i] /\ ~records[i].is_anomaly

\* injection has finished with a three-day spike at the last start position
\* and a spike at the first one
C19_Witness ==
    /\ pc = "store"
    /\ \E j \in 1..Len(spikes) :
           spikes[j][1] = Len(pre) - 6 /\ spikes[j][2] = 3
    /\ \E j \in 1..Len(spikes) : spikes[j][1] = 30

\* C20 as stated: for a series with a prior-year window, that window has 30
\* records, each dated 365 days before the corresponding record of the
\* trailing 30, and yoy_change_pct is (recent - prior) / prior * 100 on the
\* two averages, 0 when the prior average is 0.
C20_PriorWindowShift365 ==
    (pc = "store" /\ Len(records) >= 396) =>
        LET prior  == LySlice(records)
            recent == LastN(records, 30)
            ps     == SumSeq(SoldOf(prior))
            rs     == SumSeq(SoldOf(recent))
        IN  /\ Len(prior) = 30
            /\ \A k \in 1..30 :
                   OrdinalOf(prior[k].date) = OrdinalOf(recent[k].date) - 365
            /\ stats.yoy_change_pct =
                   (IF ps > 0 THEN RoundDec(100 * (rs - ps), ps, 1) ELSE 0)

\* C21: per product the stages run in the order synthesize, inject anomalies,
\* compute statistics, store entry, and the next product's synthesis starts
\* only after the entry of the current one is stored; the statistics are
\* computed from the series as injection left it, and computing them neither
\* advances the random source nor changes the series.
C21_StagesInOrder ==
    /\ [][/\ pc = "import" => pc' = "synth"
          /\ pc = "synth" => pc' \in {"synth", "spike", "error"}
          /\ pc = "spike" => pc' \in {"spike", "store", "error"}
          /\ pc = "store" => pc' \in {"synth", "write"}
          /\ pc' = "store" => pc = "spike"
          /\ (pc = "synth" /\ pc' = "synth") => Len(records') = Len(records) + 1
          /\ (pc = "spike" /\ pc' = "spike") => Len(spikes') = Len(spikes) + 1
          /\ (pc = "spike" /\ pc' # "spike") =>
                 /\ Len(spikes) = n_anomalies
                 /\ records' = records
                 /\ rng' = rng
          /\ (pc = "spike" /\ pc' = "store") =>
                 stats' = compute_stats(SkuData(SKUS[sku_i], records))
          /\ pc = "store" =>
                 /\ sku_i' = sku_i + 1
                 /\ all_data'[SKUS[sku_i].sku] = Entry(SKUS[sku_i], stats, records)
          /\ (pc # "store" /\ pc' # "import") =>
                 /\ sku_i' = sku_i
                 /\ all_data' = all_data
          /\ (pc = "store" /\ pc' = "synth") => records' = <<>>]_vars
    /\ [](pc \in {"synth", "spike", "store"} =>
            DOMAIN all_data = { SKUS[i].sku : i \in 1..(sku_i - 1) })

\* the second product is being synthesised; the first one is stored with the
\* statistics of its injected series, which differ from those of the series
\* before injection
C21_Witness ==
    /\ pc = "synth"
    /\ sku_i = 2
    /\ Len(records) > 0
    /\ Len(pre) = Horizon
    /\ LET e == all_data[SKUS[1].sku]
       IN  /\ e.daily_data # pre
           /\ e.stats = compute_stats(SkuData(SKUS[1], e.daily_data))
           /\ e.stats # compute_stats(SkuData(SKUS[1], pre))

\* the spikes applied so far whose window holds the 0-based index k
SpikesOver(k) ==
    { j \in 1..Len(spikes) : spikes[j][1] <= k /\ k < spikes[j][1] + spikes[j][2] }

\* C22 as stated: during and after inject_anomalies no record lies in the
\* window of more than one spike, and the qty_sold of every flagged record is
\* its value before injection multiplied once by the multiplier of a single
\* spike and truncated, hence at most 5 times that value.
C22_OneSpikePerRecord ==
    pc \in {"spike", "store"} =>
        \A i \in 1..Len(records) :
            /\ Cardinality(SpikesOver(i - 1)) <= 1
            /\ records[i].is_anomaly =>
                   /\ \E j \in SpikesOver(i - 1) :
                          records[i].qty_sold = SpikedQty(pre[i].qty_sold, spikes[j][3])
                   /\ records[i].qty_sold <= 5 * pre[i].qty_sold

====
